---- MODULE Spec2Model ----
(***************************************************************************)
(* A model of the two engines of the trading toolkit:                      *)
(*   - the trade review (src/trade_review.py): TradeReviewer and the       *)
(*     script's main block, with the persisted report and the 2-minute     *)
(*     market tables it reads;                                             *)
(*   - the three simulators: PortfolioBacktestPro                          *)
(*     (src/portfolio_backtest.py), ReversalStrategyBacktest               *)
(*     (src/strategy_res.py) and BacktestEngine.run_backtest               *)
(*     (src/backtest.py).                                                  *)
(*                                                                         *)
(* Numbers.  Python floats are modelled by exact arithmetic on integers:   *)
(* trade-review prices are in thousandths of a dollar, percentages in      *)
(* hundredths of a percent; simulator prices and cash are in dollars,      *)
(* a share quantity is an exact fraction <<numerator, denominator>> and a   *)
(* product quantity x price is rounded down to the dollar.  IEEE rounding  *)
(* in the last bit of a double is outside the model.                       *)
(***************************************************************************)
EXTENDS Integers, Sequences, FiniteSets, TLC

VARIABLES
    prog,         \* which script of the repository this behaviour runs
    \* ---- trade review ----
    store,        \* OUTPUT_FILE: [exists, header, rows]
    db,           \* the stock_2m_<ticker> tables: ticker -> [exists, rows]
    pc,           \* per reviewer process: position in the main block
    df_trades,    \* per process: the trade log read by load_and_sync_data
    df_new,       \* per process: the pending (new) trades
    results,      \* per process: the records returned by analyze
    appended,     \* per process: how many records the main block appended
    prev_csv,     \* the trade log of the previous completed run (<<None>> if none)
    runsLeft,     \* how many more times the script is started
    \* ---- simulators ----
    cash,            \* self.cash
    positions,       \* self.positions, in insertion order (a sequence of records)
    trade_log,       \* self.trade_log
    history_equity,  \* self.history_equity
    date,            \* how many dates of the timeline (rows of df) have been processed
    today,           \* the bars of the date processed last: ticker -> row or NoRow
    spy,             \* the benchmark: [last, pad, row], see get_spy_trend
    hist,            \* ReversalStrategyBacktest: what the entry signal reads of each
                     \* ticker's earlier rows
    bt               \* BacktestEngine.run_backtest: its parameters and local variables

simVars == <<cash, positions, trade_log, history_equity, date, today, spy, hist, bt>>

vars == <<prog, store, db, pc, df_trades, df_new, results, appended, prev_csv,
          runsLeft, cash, positions, trade_log, history_equity, date, today, spy,
          hist, bt>>

reviewVars == <<store, db, pc, df_trades, df_new, results, appended, prev_csv, runsLeft>>

\* Python's None, and the "-" the report prints for a missing number or time.
None == -1

(***************************************************************************)
(* Small helpers on sequences.                                             *)
(***************************************************************************)
RECURSIVE SelectSeqIdx(_, _, _)
\* the subsequence of s of the elements at the indices i with keep[i]
SelectSeqIdx(s, keep, i) ==
    IF i > Len(s) THEN <<>>
    ELSE (IF keep[i] THEN <<s[i]>> ELSE <<>>) \o SelectSeqIdx(s, keep, i + 1)

Min(S) == CHOOSE x \in S : \A y \in S : x <= y
Max(S) == CHOOSE x \in S : \A y \in S : x >= y

\* round(n / d) to the nearest integer, ties to the even one (Python's round),
\* for n >= 0 and d > 0
RoundDiv(n, d) ==
    LET q == n \div d
        r == n % d
    IN  IF 2 * r < d THEN q
        ELSE IF 2 * r > d THEN q + 1
        ELSE IF q % 2 = 0 THEN q ELSE q + 1

(***************************************************************************)
(*                        T R A D E   R E V I E W                          *)
(*                                                                         *)
(* Times are minutes; the market-time origin is 2025-11-01 00:00 New York  *)
(* and the source-time origin 2025-11-01 00:00 Shanghai.  A trade row is   *)
(* [ticker, action, exec_price, time_str]; a bar of a 2-minute table is    *)
(* [Datetime, Low, High].                                                  *)
(***************************************************************************)
Procs == {1, 2}

MinutesPerDay == 1440
\* Asia/Shanghai is 13 hours ahead of America/New_York in November (EST)
TzShift == 780
\* start_date_str "2025-11-16", 00:00 New York
CutoffTime == 15 * MinutesPerDay
\* self.bad_tick_threshold = 0.20, in percent
BadTickPct == 20
\* timedelta(days=60)
DownloadDays == 60

\* the trade instant of the menu: 2025-11-20 10:00 New York
T0 == 19 * MinutesPerDay + 10 * 60

\* datetime.strptime(time_str, "%Y/%m/%d %H:%M") on the strings of the menu:
\* minutes since the source-time origin, None when the string does not parse.
\* %M accepts one digit, so "23:0" parses to the same instant as "23:00".
strptime(time_str) ==
    CASE time_str = "2025/11/20 23:00" -> 19 * MinutesPerDay + 23 * 60
      [] time_str = "2025/11/20 23:0"  -> 19 * MinutesPerDay + 23 * 60
      [] time_str = "2025/11/20 23:10" -> 19 * MinutesPerDay + 23 * 60 + 10
      [] time_str = "2025/11/10 23:00" -> 9 * MinutesPerDay + 23 * 60
      [] OTHER -> None

_convert_time(time_str) ==
    LET dt_cn == strptime(time_str)
    IN  IF dt_cn = None THEN None ELSE dt_cn - TzShift

Digit(d) ==
    CASE d = 0 -> "0" [] d = 1 -> "1" [] d = 2 -> "2" [] d = 3 -> "3" [] d = 4 -> "4"
      [] d = 5 -> "5" [] d = 6 -> "6" [] d = 7 -> "7" [] d = 8 -> "8" [] d = 9 -> "9"

RECURSIVE IntStr(_)
IntStr(n) == IF n < 10 THEN Digit(n) ELSE IntStr(n \div 10) \o Digit(n % 10)

\* str() of a float price held in thousandths: 50000 -> "50.0", 49998 -> "49.998"
PriceStr(p) ==
    LET m == p % 1000
        frac == IF m % 100 = 0 THEN Digit(m \div 100)
                ELSE IF m % 10 = 0 THEN Digit(m \div 100) \o Digit((m \div 10) % 10)
                ELSE Digit(m \div 100) \o Digit((m \div 10) % 10) \o Digit(m % 10)
    IN  IntStr(p \div 1000) \o "." \o frac

\* a plausible slip: the fingerprint leaves the timestamp string out
_generate_fingerprint_NoTime(row) ==
    row.ticker \o "_" \o row.action \o "_" \o PriceStr(row.exec_price)

_generate_fingerprint(row) ==
    row.ticker \o "_" \o row.action \o "_" \o PriceStr(row.exec_price)
        \o "_" \o row.time_str

\* os.path.exists, then read_csv; a file that cannot be parsed or has no
\* fingerprint column (header = FALSE) gives the empty set
get_processed_fingerprints(st) ==
    IF ~st.exists THEN {}
    ELSE IF ~st.header THEN {}
    ELSE {st.rows[i].fp : i \in DOMAIN st.rows}

\* rows of the trade log that pass the time filter (parse, not before the cutoff)
PassesTimeFilter(row) ==
    LET dt_us == _convert_time(row.time_str)
    IN  dt_us # None /\ ~(dt_us < CutoffTime)

\* the new_trades loop of load_and_sync_data: each kept row gets its
\* fingerprint and dt_us
NewTrades(csv, processed_fingerprints) ==
    LET keep == [i \in DOMAIN csv |->
                    /\ PassesTimeFilter(csv[i])
                    /\ _generate_fingerprint(csv[i]) \notin processed_fingerprints]
        tagged == [i \in DOMAIN csv |->
                    [ticker |-> csv[i].ticker, action |-> csv[i].action,
                     exec_price |-> csv[i].exec_price, time_str |-> csv[i].time_str,
                     fp |-> _generate_fingerprint(csv[i]),
                     dt_us |-> _convert_time(csv[i].time_str)]]
    IN  SelectSeqIdx(tagged, keep, 1)

(***************************************************************************)
(* analyze: one pending trade against its ticker's table.                  *)
(***************************************************************************)
StNoTable      == "no-history-data"      \* "无历史数据"
StNoData       == "data-missing"         \* "数据缺失"
StNoFuture     == "no-subsequent-data"   \* "无后续行情(尾盘)"
StAnomaly      == "data-anomaly"         \* "数据异常(已清洗)"
StPremature    == "premature"            \* "❌ 过早行动"
StOptimal      == "optimal-execution"    \* "✅ 完美操作"
StError        == "error"                \* "错误: ..."

\* strftime('%H:%M'): the minute of the day
HourMinute(t) == t % MinutesPerDay
\* strftime('%Y-%m-%d'): the day
DateOf(t) == t \div MinutesPerDay

\* round(x, 2) of a price in thousandths, as a price in thousandths
Round2(p) == 10 * RoundDiv(p, 10)

\* the percentage cut to two decimals instead of rounded
_make_result_Truncates(row, dt_us, status, best_price, diff_pct, best_time, trade_time, first_better_time) ==
    IF best_time # None /\ trade_time # None
    THEN [ticker |-> row.ticker, action |-> row.action,
          exec_price |-> row.exec_price, fp |-> row.fp,
          first_better_time |-> IF first_better_time # None
                                THEN HourMinute(first_better_time) ELSE None,
          best_time |-> HourMinute(best_time),
          best_price |-> Round2(best_price),
          diff_pct |-> (diff_pct[1] * 100) \div diff_pct[2],
          status |-> status, time_str |-> row.time_str]
    ELSE [ticker |-> row.ticker, action |-> row.action,
          exec_price |-> row.exec_price, fp |-> row.fp,
          first_better_time |-> None, best_time |-> None,
          best_price |-> None, diff_pct |-> 0,
          status |-> status, time_str |-> row.time_str]

\* the record of the report; a missing number or time is None
_make_result(row, dt_us, status, best_price, diff_pct, best_time, trade_time, first_better_time) ==
    IF best_time # None /\ trade_time # None
    THEN [ticker |-> row.ticker, action |-> row.action,
          exec_price |-> row.exec_price, fp |-> row.fp,
          first_better_time |-> IF first_better_time # None
                                THEN HourMinute(first_better_time) ELSE None,
          best_time |-> HourMinute(best_time),
          best_price |-> Round2(best_price),
          \* round(diff_pct, 2), in hundredths of a percent
          diff_pct |-> RoundDiv(diff_pct[1] * 100, diff_pct[2]),
          status |-> status, time_str |-> row.time_str]
    ELSE [ticker |-> row.ticker, action |-> row.action,
          exec_price |-> row.exec_price, fp |-> row.fp,
          first_better_time |-> None, best_time |-> None,
          best_price |-> None, diff_pct |-> 0,
          status |-> status, time_str |-> row.time_str]

\* the last of the bars at the given positions instead of the first
FirstAt_Last(bars, idxs) == bars[Max(idxs)]

\* the first of the bars at the given (non-empty) set of positions: idxmin /
\* idxmax give the first occurrence, iloc[0] the first row
FirstAt(bars, idxs) == bars[Min(idxs)]

\* a plausible slip: the bar at the trade's own minute counts as later
IsAfter_OrAt(b, dt_us) == b.Datetime >= dt_us

\* df_kline['Datetime'] > dt_us
IsAfter(b, dt_us) == b.Datetime > dt_us

\* a plausible slip: the comparisons with the bounds are not strict
InBand_Inclusive(b, exec_price) ==
    /\ 100 * b.Low >= exec_price * (100 - BadTickPct)
    /\ 100 * b.High <= exec_price * (100 + BadTickPct)

\* (df_future['Low'] > lower_bound) & (df_future['High'] < upper_bound)
InBand(b, exec_price) ==
    /\ 100 * b.Low > exec_price * (100 - BadTickPct)
    /\ 100 * b.High < exec_price * (100 + BadTickPct)

\* the body of analyze's loop for one row; table is the ticker's
\* stock_2m_ table: [exists, readable, rows]
AnalyzeRow(row, table) ==
    LET exec_price == row.exec_price
        dt_us == row.dt_us
        fail(status) == _make_result(row, dt_us, status, 0, <<0, 1>>, None, None, None)
        \* 2. the day's bars
        df_kline == SelectSeq(table.rows, LAMBDA b : DateOf(b.Datetime) = DateOf(dt_us))
        \* 3. bars after the trade
        df_future0 == SelectSeq(df_kline, LAMBDA b : IsAfter(b, dt_us))
        \* 4. Low > exec_price * (1 - threshold) and High < exec_price * (1 + threshold)
        df_future == SelectSeq(df_future0, LAMBDA b : InBand(b, exec_price))
        min_price == Min({df_future[i].Low : i \in DOMAIN df_future})
        max_price == Max({df_future[i].High : i \in DOMAIN df_future})
        \* diff / exec_price * 100, as the fraction <<numerator, denominator>>
        pct(diff) == <<diff * 100, exec_price>>
    IN  IF ~table.exists THEN fail(StNoTable)
        ELSE IF ~table.readable THEN fail(StError)
        ELSE IF df_kline = <<>> THEN fail(StNoData)
        ELSE IF df_future0 = <<>> THEN fail(StNoFuture)
        ELSE IF df_future = <<>> THEN fail(StAnomaly)
        ELSE IF row.action = "B" /\ min_price < exec_price
        THEN _make_result(row, dt_us, StPremature, min_price,
                          pct(exec_price - min_price),
                          FirstAt(df_future, {i \in DOMAIN df_future : df_future[i].Low = min_price}).Datetime,
                          dt_us,
                          FirstAt(df_future, {i \in DOMAIN df_future : df_future[i].Low < exec_price}).Datetime)
        ELSE IF row.action = "S" /\ max_price > exec_price
        THEN _make_result(row, dt_us, StPremature, max_price,
                          pct(max_price - exec_price),
                          FirstAt(df_future, {i \in DOMAIN df_future : df_future[i].High = max_price}).Datetime,
                          dt_us,
                          FirstAt(df_future, {i \in DOMAIN df_future : df_future[i].High > exec_price}).Datetime)
        ELSE _make_result(row, dt_us, StOptimal, exec_price, <<0, 1>>, None, dt_us, None)

\* analyze without the per-trade try: the first trade that fails ends the
\* loop and the records made so far are returned
analyze_StopsAtFailure(new, tables) ==
    LET all == [i \in DOMAIN new |-> AnalyzeRow(new[i], tables[new[i].ticker])]
        bad == {i \in DOMAIN new : all[i].status \in {StNoTable, StNoData, StError}}
    IN  IF bad = {} THEN all ELSE SubSeq(all, 1, Min(bad) - 1)

\* analyze: one record per pending trade, in order
analyze(new, tables) ==
    [i \in DOMAIN new |-> AnalyzeRow(new[i], tables[new[i].ticker])]

(***************************************************************************)
(* The inputs of the trade review: trade logs, tables, downloads, clocks.  *)
(***************************************************************************)
MaxRuns == 2
MaxBars == 2

ReviewTickers == {"NVDA"}

RowMenu ==
    {[ticker |-> "NVDA", action |-> "B", exec_price |-> 50000, time_str |-> "2025/11/20 23:00"],
     [ticker |-> "NVDA", action |-> "B", exec_price |-> 50000, time_str |-> "2025/11/20 23:0"],
     [ticker |-> "NVDA", action |-> "S", exec_price |-> 50000, time_str |-> "2025/11/20 23:00"],
     [ticker |-> "NVDA", action |-> "B", exec_price |-> 49998, time_str |-> "2025/11/20 23:00"],
     [ticker |-> "NVDA", action |-> "B", exec_price |-> 50000, time_str |-> "2025/11/20 23:10"],
     [ticker |-> "NVDA", action |-> "B", exec_price |-> 50000, time_str |-> "2025/11/10 23:00"],
     [ticker |-> "NVDA", action |-> "B", exec_price |-> 50000, time_str |-> "n/a"]}

\* trade logs of at most two rows (a row may repeat)
LogMenu == {<<>>} \cup {<<r>> : r \in RowMenu} \cup {<<r, q>> : r, q \in RowMenu}

\* the logs of the repeated runs: a trade, the same trade with its time written
\* differently, and a trade before the cutoff
ShortRowMenu ==
    {r \in RowMenu : /\ r.action = "B" /\ r.exec_price = 50000
                     /\ r.time_str \in {"2025/11/20 23:00", "2025/11/20 23:0",
                                        "2025/11/10 23:00"}}

ShortLogMenu ==
    {<<>>} \cup {<<r>> : r \in ShortRowMenu} \cup {<<r, q>> : r, q \in ShortRowMenu}

LowHighMenu ==
    {<<49000, 49500>>, <<48000, 49000>>, <<49996, 49999>>, <<50000, 51000>>,
     <<40000, 50500>>, <<25000, 50500>>, <<50100, 60000>>}

BarMenu ==
    {[Datetime |-> t, Low |-> lh[1], High |-> lh[2]] :
        t \in {T0, T0 + 2, T0 + 10}, lh \in LowHighMenu}

\* a table's rows are in increasing Datetime order: update_minute_data writes a
\* downloaded frame and afterwards appends only bars later than the last one
Klines ==
    UNION {{k \in [1..n -> BarMenu] :
              \A i \in 1..(n - 1) : k[i].Datetime < k[i + 1].Datetime} : n \in 0..MaxBars}

NoTable  == [exists |-> FALSE, readable |-> FALSE, rows |-> <<>>]
BadTable == [exists |-> TRUE, readable |-> FALSE, rows |-> <<>>]
Table(k) == [exists |-> TRUE, readable |-> TRUE, rows |-> k]

Frame1 ==
    <<[Datetime |-> T0 + 2, Low |-> 49000, High |-> 49500],
      [Datetime |-> T0 + 10, Low |-> 48000, High |-> 49000]>>

\* what yf.download returns for a ticker: nothing, or the day's bars
DownloadMenu == {<<>>, Frame1}

\* datetime.now(self.tz_us): the day after the trades, or three months later
NowMenu == {T0 + MinutesPerDay, T0 + 90 * MinutesPerDay}

StoreAbsent == [exists |-> FALSE, header |-> FALSE, rows |-> <<>>]
\* a report file that exists without the fingerprint column (written by an
\* earlier version of the script, or empty)
StoreLegacy == [exists |-> TRUE, header |-> FALSE, rows |-> <<>>]

(***************************************************************************)
(* The trade-review script: load_and_sync_data, analyze, the main block.   *)
(***************************************************************************)
\* StockDataEngine.update_minute_data for one ticker, given what the
\* download returned
update_minute_data(table, df) ==
    LET last_db_time ==
            IF table.exists /\ table.readable /\ table.rows # <<>>
            THEN Max({table.rows[i].Datetime : i \in DOMAIN table.rows})
            ELSE None
        new_data == SelectSeq(df, LAMBDA b : b.Datetime > last_db_time)
    IN  IF df = <<>> THEN table
        ELSE IF last_db_time = None THEN Table(df)
        ELSE Table(table.rows \o new_data)

\* load_and_sync_data: read the log, keep the new trades, sync their tickers
load_and_sync_data(p, logs) ==
    /\ prog = "trade_review"
    /\ pc[p] \in {"start", "done"}
    /\ runsLeft > 0
    /\ \E csv \in logs, now_us \in NowMenu, dl \in [ReviewTickers -> DownloadMenu] :
         LET processed_fingerprints == get_processed_fingerprints(store)
             new == NewTrades(csv, processed_fingerprints)
             download_cutoff == now_us - DownloadDays * MinutesPerDay
             tickers_to_sync ==
                 {new[i].ticker : i \in {j \in DOMAIN new : new[j].dt_us > download_cutoff}}
         IN  /\ df_trades' = [df_trades EXCEPT ![p] = csv]
             /\ df_new' = [df_new EXCEPT ![p] = new]
             /\ db' = [t \in ReviewTickers |->
                         IF t \in tickers_to_sync
                         THEN update_minute_data(db[t], dl[t]) ELSE db[t]]
    /\ prev_csv' = IF pc[p] = "done" THEN <<df_trades[p]>> ELSE prev_csv
    /\ results' = [results EXCEPT ![p] = <<>>]
    /\ appended' = [appended EXCEPT ![p] = 0]
    /\ runsLeft' = runsLeft - 1
    /\ pc' = [pc EXCEPT ![p] = "loaded"]
    /\ UNCHANGED <<prog, store, simVars>>

\* df_new_result = reviewer.analyze()
Analyze(p) ==
    /\ prog = "trade_review"
    /\ pc[p] = "loaded"
    /\ results' = [results EXCEPT ![p] = analyze(df_new[p], db)]
    /\ pc' = [pc EXCEPT ![p] = "analyzed"]
    /\ UNCHANGED <<prog, store, db, df_trades, df_new, appended, prev_csv, runsLeft, simVars>>

\* to_csv(OUTPUT_FILE, mode='a', header=not file_exists)
to_csv(st, recs) ==
    [exists |-> TRUE,
     header |-> IF st.exists THEN st.header ELSE TRUE,
     rows   |-> st.rows \o recs]

\* the main block after analyze: append the records if there are any
Save(p) ==
    /\ prog = "trade_review"
    /\ pc[p] = "analyzed"
    /\ IF results[p] # <<>>
       THEN /\ store' = to_csv(store, results[p])
            /\ appended' = [appended EXCEPT ![p] = Len(results[p])]
       ELSE UNCHANGED <<store, appended>>
    /\ pc' = [pc EXCEPT ![p] = "done"]
    /\ UNCHANGED <<prog, db, df_trades, df_new, results, prev_csv, runsLeft, simVars>>

\* the simulators' variables while the trade review runs
NoSim ==
    /\ cash = 0
    /\ positions = <<>>
    /\ trade_log = <<>>
    /\ history_equity = <<>>
    /\ date = 0
    /\ today = <<>>
    /\ spy = <<>>
    /\ hist = <<>>
    /\ bt = <<>>

InitReviewCommon ==
    /\ prog = "trade_review"
    /\ store \in {StoreAbsent, StoreLegacy}
    /\ pc = [p \in Procs |-> "start"]
    /\ df_trades = [p \in Procs |-> <<>>]
    /\ df_new = [p \in Procs |-> <<>>]
    /\ results = [p \in Procs |-> <<>>]
    /\ appended = [p \in Procs |-> 0]
    /\ prev_csv = <<>>
    /\ NoSim

\* repeated runs of the script, one after the other, over a small market store
InitReview ==
    /\ InitReviewCommon
    /\ db \in [ReviewTickers -> {NoTable, Table(<<>>), Table(Frame1)}]
    /\ runsLeft = MaxRuns

\* one run of the script over any table of the menu
InitAnalyze ==
    /\ InitReviewCommon
    /\ db \in [ReviewTickers -> {NoTable, BadTable} \cup {Table(k) : k \in Klines}]
    /\ runsLeft = 1

NextReview ==
    \/ load_and_sync_data(1, ShortLogMenu)
    \/ Analyze(1)
    \/ Save(1)

NextAnalyze ==
    \/ load_and_sync_data(1, LogMenu)
    \/ Analyze(1)
    \/ Save(1)

SpecReview == InitReview /\ [][NextReview]_vars

SpecAnalyze == InitAnalyze /\ [][NextAnalyze]_vars

\* two reviewer processes started on the same report file and market store;
\* each reads the fingerprints in load_and_sync_data, analyzes, and appends
\* in the main block, with nothing that orders the steps of one process
\* against the steps of the other
NextConcurrent ==
    \E p \in Procs :
        \/ load_and_sync_data(p, ShortLogMenu)
        \/ Analyze(p)
        \/ Save(p)

SpecConcurrent == InitReview /\ [][NextConcurrent]_vars

(***************************************************************************)
(* Claims about the trade review.                                          *)
(***************************************************************************)
AllRecords == {store.rows[i] : i \in DOMAIN store.rows}

\* C1: a run of the trade review on the same trade log as the previous run,
\* over the store the previous run left, appends no record.
C1_SecondRunAppendsNothing ==
    \A p \in Procs :
        (pc[p] = "done" /\ prev_csv = <<df_trades[p]>>) => appended[p] = 0

\* C2: the persisted store holds at most one record per fingerprint.
C2_OneRecordPerFingerprint ==
    \A i, j \in DOMAIN store.rows :
        i # j => store.rows[i].fp # store.rows[j].fp

\* the record rec was written for the trade row
RecordOf(rec, row) ==
    /\ rec.ticker = row.ticker
    /\ rec.action = row.action
    /\ rec.exec_price = row.exec_price
    /\ rec.time_str = row.time_str

SameButTime(a, b) ==
    /\ a.ticker = b.ticker
    /\ a.action = b.action
    /\ a.exec_price = b.exec_price
    /\ a.time_str # b.time_str

\* C3: two trades of a log with the same symbol, side and price and different
\* timestamp strings have different fingerprints, and a trade that passes the
\* time filter and has no record of its own in a store with the fingerprint
\* column is pending even when the store holds the other trade's record.
C3_TimestampDistinguishes ==
    \A p \in Procs :
        pc[p] = "loaded" =>
            \A i, j \in DOMAIN df_trades[p] :
                LET a == df_trades[p][i]
                    b == df_trades[p][j]
                IN  SameButTime(a, b) =>
                      /\ _generate_fingerprint(a) # _generate_fingerprint(b)
                      /\ ( /\ PassesTimeFilter(a)
                           /\ \A rec \in AllRecords : ~RecordOf(rec, a) )
                         => \E k \in DOMAIN df_new[p] : RecordOf(df_new[p][k], a)

\* C3 witness: the store already holds the record of one of the two trades and
\* the other one is pending.
C3_Witness ==
    \E p \in Procs :
        /\ pc[p] = "loaded"
        /\ store.header
        /\ \E i, j \in DOMAIN df_trades[p] :
             LET a == df_trades[p][i]
                 b == df_trades[p][j]
             IN  /\ SameButTime(a, b)
                 /\ \E rec \in AllRecords : RecordOf(rec, b)
                 /\ \A rec \in AllRecords : ~RecordOf(rec, a)
                 /\ \E k \in DOMAIN df_new[p] : RecordOf(df_new[p][k], a)

\* C10: a record whose status is not optimal-execution and that reports a best
\* price reports one that is <= the executed price for a BUY and >= it for a SELL.
C10_BestPriceNotWorse ==
    \A p \in Procs : \A i \in DOMAIN results[p] :
        LET rec == results[p][i]
        IN  (rec.status # StOptimal /\ rec.best_price # None) =>
                /\ rec.action = "B" => rec.best_price <= rec.exec_price
                /\ rec.action = "S" => rec.best_price >= rec.exec_price

(***************************************************************************)
(*                          S I M U L A T O R S                            *)
(*                                                                         *)
(* A date is its position 1, 2, ... in the sorted timeline.  A row is a    *)
(* ticker's bar at a date with the indicator columns the simulator reads;  *)
(* NoRow stands for "date not in df.index".  The bars of a date are drawn  *)
(* when the loop reaches the date and kept in today.                       *)
(***************************************************************************)
\* the first two tickers of config.WATCHLIST, in its order
SimTickers == <<"NVDA", "TSLA">>
TickerSet == {SimTickers[i] : i \in DOMAIN SimTickers}

\* initial_capital=100000
InitialCapital == 100000
\* cost > 500, invest_amt > 500
MinOrder == 500

NaN == None
NoRow == [Close |-> None]

\* a comparison that takes the number standing for NaN as a price
Lt_NaNIsANumber(a, b) == a < b

\* comparisons of floats: any comparison with NaN is False
Lt(a, b) == a # NaN /\ b # NaN /\ a < b
Gt(a, b) == a # NaN /\ b # NaN /\ a > b
Le(a, b) == a # NaN /\ b # NaN /\ a <= b

RECURSIVE Gcd(_, _)
Gcd(a, b) == IF b = 0 THEN a ELSE Gcd(b, a % b)

\* a fraction <<n, d>> with n >= 0 and d > 0, in lowest terms
Norm(f) == LET g == Gcd(f[1], f[2]) IN <<f[1] \div g, f[2] \div g>>

\* fractions with positive denominators
FracLt(a, b) == a[1] * b[2] < b[1] * a[2]
FracLe(a, b) == a[1] * b[2] <= b[1] * a[2]

\* qty * price in dollars, for a quantity held as a fraction
Value(qty, price) == (qty[1] * price) \div qty[2]

\* (price - entry_price) / entry_price
Return(price, entry_price) == <<price - entry_price, entry_price>>

HasPosition(pos, ticker) == \E k \in DOMAIN pos : pos[k].ticker = ticker
PositionOf(pos, ticker) == pos[CHOOSE k \in DOMAIN pos : pos[k].ticker = ticker]
\* del self.positions[ticker]
Remove(pos, ticker) == SelectSeq(pos, LAMBDA q : q.ticker # ticker)

\* a plausible slip: a second position is opened in a ticker already held
Held_Never(pos, ticker) == FALSE

\* if ticker in self.positions: continue
Held(pos, ticker) == HasPosition(pos, ticker)

(***************************************************************************)
(* PortfolioBacktestPro.  A row is [Close, EMA20, EMA60, RSI, ATR], ATR a  *)
(* fraction, <<NaN, 1>> when missing.  A position is [ticker, qty,         *)
(* entry_price, stop_loss_price], stop_loss_price a fraction.              *)
(***************************************************************************)
ProDates == 2

NoSpy == [Close |-> None, MA200 |-> None, Date |-> None]

\* the benchmark row the gate reads: the row of the date, else the most recent
\* earlier one; with no earlier row get_indexer gives -1 and iloc[-1] is the
\* LAST row of the benchmark
SpyRowUsed(sp) ==
    IF sp.row # NoSpy THEN sp.row
    ELSE IF sp.pad # NoSpy THEN sp.pad
    ELSE sp.last

\* a plausible slip: the gate is not consulted
get_spy_trend_AlwaysBull(sp) == TRUE

\* an empty benchmark raises in iloc and the except clause permits entries
get_spy_trend(sp) ==
    LET row == SpyRowUsed(sp)
    IN  IF row = NoSpy THEN TRUE
        ELSE IF row.MA200 # NaN /\ row.Close < row.MA200 THEN FALSE
        ELSE TRUE

\* a plausible slip: the stop-loss test comes after the trend exit
ProExitReason_TrendFirst(pos, row) ==
    IF Lt(row.Close, row.EMA20) /\ row.Close > pos.entry_price THEN "trend-exit"
    ELSE IF FracLt(<<row.Close, 1>>, pos.stop_loss_price) THEN "stop-loss"
    ELSE "none"

\* the exit tests of the sell loop, in their order
ProExitReason(pos, row) ==
    IF FracLt(<<row.Close, 1>>, pos.stop_loss_price) THEN "stop-loss"
    ELSE IF Lt(row.Close, row.EMA20) /\ row.Close > pos.entry_price THEN "trend-exit"
    ELSE "none"

\* one iteration of the sell loop; st is [cash, positions, trade_log, dpv]
\* with dpv the daily_portfolio_value
ProExitOne(st, pos, rows, d) ==
    LET row == rows[pos.ticker]
        price == row.Close
        value == Value(pos.qty, price)
        reason == ProExitReason(pos, row)
    IN  IF row = NoRow THEN st
        ELSE IF reason = "none" THEN [st EXCEPT !.dpv = @ + value]
        ELSE [cash |-> st.cash + value,
              dpv |-> st.dpv + value,
              positions |-> Remove(st.positions, pos.ticker),
              trade_log |-> Append(st.trade_log,
                  [Date |-> d, Ticker |-> pos.ticker, Action |-> "SELL",
                   Reason |-> reason, PnL |-> Return(price, pos.entry_price)])]

RECURSIVE ProExitPass(_, _, _, _, _)
\* for ticker in list(self.positions.keys())
ProExitPass(st, keys, k, rows, d) ==
    IF k > Len(keys) THEN st
    ELSE ProExitPass(ProExitOne(st, keys[k], rows, d), keys, k + 1, rows, d)

\* the entry signal: EMA trend and RSI pullback
ProSignal(row) == Gt(row.Close, row.EMA60) /\ Lt(row.RSI, 55)

\* atr, with Close * 0.02 for a missing ATR
ProAtr(row) == IF row.ATR[1] # NaN THEN row.ATR ELSE <<row.Close, 50>>

\* shares_to_buy = (dpv * 0.015) / (atr * 2.5); only for atr > 0
ProShares(dpv, atr) == Norm(<<dpv * 3 * atr[2], 500 * atr[1]>>)

\* row['Close'] - atr * 2.5
ProStopPrice(row, atr) == <<row.Close * atr[2] * 2 - atr[1] * 5, atr[2] * 2>>

\* a plausible slip: the order is filled without looking at the cash
ProCanBuy_NoCashCheck(c, cost) == cost > MinOrder

\* self.cash >= cost and cost > 500
ProCanBuy(c, cost) == c >= cost /\ cost > MinOrder

\* the entry loop with the cash debited before the order is tested
ProEntryOne_DebitsRefused(st, ticker, rows, d) ==
    LET row == rows[ticker]
        atr == ProAtr(row)
        shares_to_buy == ProShares(st.dpv, atr)
        cost == Value(shares_to_buy, row.Close)
    IN  IF Held(st.positions, ticker) THEN st
        ELSE IF row = NoRow THEN st
        ELSE IF ~ProSignal(row) THEN st
        ELSE IF atr[1] = 0 THEN st
        ELSE IF ~ProCanBuy(st.cash, cost) THEN [st EXCEPT !.cash = st.cash - cost]
        ELSE [cash |-> st.cash - cost,
              dpv |-> st.dpv,
              positions |-> Append(st.positions,
                  [ticker |-> ticker, qty |-> shares_to_buy,
                   entry_price |-> row.Close,
                   stop_loss_price |-> ProStopPrice(row, atr)]),
              trade_log |-> Append(st.trade_log,
                  [Date |-> d, Ticker |-> ticker, Action |-> "BUY",
                   Reason |-> "signal-entry", PnL |-> <<0, 1>>])]

\* one iteration of the entry loop.  A zero ATR makes shares_to_buy and cost
\* infinite (numpy division), so the order is not filled
ProEntryOne(st, ticker, rows, d) ==
    LET row == rows[ticker]
        atr == ProAtr(row)
        shares_to_buy == ProShares(st.dpv, atr)
        cost == Value(shares_to_buy, row.Close)
    IN  IF Held(st.positions, ticker) THEN st
        ELSE IF row = NoRow THEN st
        ELSE IF ~ProSignal(row) THEN st
        ELSE IF atr[1] = 0 THEN st
        ELSE IF ~ProCanBuy(st.cash, cost) THEN st
        ELSE [cash |-> st.cash - cost,
              dpv |-> st.dpv,
              positions |-> Append(st.positions,
                  [ticker |-> ticker, qty |-> shares_to_buy,
                   entry_price |-> row.Close,
                   stop_loss_price |-> ProStopPrice(row, atr)]),
              trade_log |-> Append(st.trade_log,
                  [Date |-> d, Ticker |-> ticker, Action |-> "BUY",
                   Reason |-> "signal-entry", PnL |-> <<0, 1>>])]

RECURSIVE ProEntryPass(_, _, _, _)
\* for ticker in self.market_data
ProEntryPass(st, k, rows, d) ==
    IF k > Len(SimTickers) THEN st
    ELSE ProEntryPass(ProEntryOne(st, SimTickers[k], rows, d), k + 1, rows, d)

ProRow(c, e20, e60, rsi, atr) == [Close |-> c, EMA20 |-> e20, EMA60 |-> e60, RSI |-> rsi, ATR |-> atr]

\* the bars a date can bring: entries sized by different ATRs (2, missing,
\* 0, 1/2, 200), a close at and below the stop of an entry at 100, and a
\* close under the EMA20 above the entry price that also signals an entry,
\* a close above the entry price without EMA20 and RSI, and an entry bar
\* without EMA60
ProRowMenu1 ==
    { NoRow,
      ProRow(100, 95, 90, 50, <<2, 1>>),
      ProRow(100, 95, 90, 50, <<NaN, 1>>),
      ProRow(100, 95, 90, 50, <<0, 1>>),
      ProRow(100, 95, 90, 50, <<1, 2>>),
      ProRow(100, 95, 90, 50, <<200, 1>>),
      ProRow(95, 95, 100, 50, <<2, 1>>),
      ProRow(94, 95, 100, 50, <<2, 1>>),
      ProRow(106, 110, 100, 50, <<2, 1>>),
      ProRow(106, NaN, 90, NaN, <<2, 1>>),
      ProRow(100, 95, NaN, 50, <<2, 1>>) }

ProRowMenu2 ==
    { NoRow,
      ProRow(50, 48, 45, 50, <<1, 1>>) }

\* the rows of a date; a date of the timeline has a bar for some ticker
ProRowsMenu ==
    { r \in [TickerSet -> ProRowMenu1 \cup ProRowMenu2] :
        /\ r[SimTickers[1]] \in ProRowMenu1
        /\ r[SimTickers[2]] \in ProRowMenu2
        /\ \E t \in TickerSet : r[t] # NoRow }

SpyRow(c, ma, d) == [Close |-> c, MA200 |-> ma, Date |-> d]
\* benchmark rows: above its average, below it, and before the average exists
SpyMenu(d) == { SpyRow(500, 480, d), SpyRow(450, 480, d), SpyRow(450, NaN, d) }
\* the last row of the benchmark lies after the dates of the timeline
SpyLastMenu == { NoSpy, SpyRow(500, 480, ProDates + 1), SpyRow(450, 480, ProDates + 1) }

\* the close of each ticker's latest bar up to the date (market_data holds
\* the earlier bars; the run never reads them)
LastClose(h, rows) ==
    [t \in TickerSet |-> IF rows[t] = NoRow THEN h[t] ELSE rows[t].Close]

InitPro ==
    /\ prog = "portfolio_backtest"
    /\ cash = InitialCapital
    /\ positions = <<>>
    /\ trade_log = <<>>
    /\ history_equity = <<>>
    /\ date = 0
    /\ today = [t \in TickerSet |-> NoRow]
    /\ spy \in { [last |-> l, pad |-> NoSpy, row |-> NoSpy] : l \in SpyLastMenu }
    /\ hist = [t \in TickerSet |-> None]
    /\ bt = <<>>

\* one iteration of "for date in timeline": sell pass, regime gate, entry
\* pass, equity snapshot
ProStep ==
    /\ prog = "portfolio_backtest"
    /\ date < ProDates
    /\ \E rows \in ProRowsMenu :
       \E srow \in (IF spy.last = NoSpy THEN {} ELSE SpyMenu(date + 1)) \cup {NoSpy} :
         LET d == date + 1
             st0 == [cash |-> cash, dpv |-> cash, positions |-> positions,
                     trade_log |-> trade_log]
             st1 == ProExitPass(st0, positions, 1, rows, d)
             sp == [last |-> spy.last,
                    pad |-> IF spy.row # NoSpy THEN spy.row ELSE spy.pad,
                    row |-> srow]
             is_bull_market == get_spy_trend(sp)
             st2 == IF is_bull_market THEN ProEntryPass(st1, 1, rows, d) ELSE st1
         IN  /\ cash' = st2.cash
             /\ positions' = st2.positions
             /\ trade_log' = st2.trade_log
             /\ history_equity' = Append(history_equity,
                    [Date |-> d, Total_Equity |-> st1.dpv])
             /\ date' = d
             /\ today' = rows
             /\ spy' = sp
             /\ hist' = LastClose(hist, rows)
    /\ UNCHANGED <<bt, prog, reviewVars>>

(***************************************************************************)
(* ReversalStrategyBacktest.  A row is [Close, EMA5, EMA10, RSI, K, D].    *)
(* A position is [ticker, qty, entry_price, last_price, max_pnl], max_pnl  *)
(* a fraction.  hist[ticker] counts the ticker's rows since its last row   *)
(* with RSI < 35, capped at RsiWindow: the rows of df.loc[:date].tail(5)   *)
(* hold such a row exactly when the count is below RsiWindow.              *)
(***************************************************************************)
RevDates == 8
\* if i < 5: continue
Warmup == 5
\* tail(5)
RsiWindow == 5
\* max_pos_pct = 0.20
MaxPosPct == 20
\* stop_loss_pct = 0.05
StopLossPct == 5

\* a plausible slip: the breakeven test comes before the hard stop
RevExitReason_BreakevenFirst(pos, row) ==
    LET pnl_pct == Return(row.Close, pos.entry_price)
    IN  IF FracLt(<<5, 100>>, pos.max_pnl) /\ FracLt(pnl_pct, <<1, 100>>)
        THEN "breakeven-exit"
        ELSE IF FracLe(pnl_pct, <<0 - StopLossPct, 100>>) THEN "stop-loss"
        ELSE IF Lt(row.Close, row.EMA5) /\ pnl_pct[1] > 0 THEN "trend-exit"
        ELSE "none"

\* the breakeven test without the test of the running maximum
RevExitReason_NoPeakTest(pos, row) ==
    LET pnl_pct == Return(row.Close, pos.entry_price)
    IN  IF FracLe(pnl_pct, <<0 - StopLossPct, 100>>) THEN "stop-loss"
        ELSE IF FracLt(pnl_pct, <<1, 100>>) THEN "breakeven-exit"
        ELSE IF Lt(row.Close, row.EMA5) /\ pnl_pct[1] > 0 THEN "trend-exit"
        ELSE "none"

\* the exit tests A, B and the EMA5 test, in their order
RevExitReason(pos, row) ==
    LET pnl_pct == Return(row.Close, pos.entry_price)
    IN  IF FracLe(pnl_pct, <<0 - StopLossPct, 100>>) THEN "stop-loss"
        ELSE IF FracLt(<<5, 100>>, pos.max_pnl) /\ FracLt(pnl_pct, <<1, 100>>)
        THEN "breakeven-exit"
        ELSE IF Lt(row.Close, row.EMA5) /\ pnl_pct[1] > 0 THEN "trend-exit"
        ELSE "none"

\* a plausible slip: the sale is credited at the entry price
_sell_AtEntry(st, d, ticker, price, reason) ==
    LET pos == PositionOf(st.positions, ticker)
        market_val == Value(pos.qty, pos.entry_price)
    IN  [st EXCEPT !.cash = @ + market_val,
                   !.trade_log = Append(@,
                       [Date |-> d, Ticker |-> ticker, Action |-> "SELL",
                        Price |-> price, Reason |-> reason,
                        PnL |-> Return(price, pos.entry_price)]),
                   !.positions = Remove(@, ticker)]

\* st is [cash, positions, trade_log, equity] with equity the daily_equity
_sell(st, d, ticker, price, reason) ==
    LET pos == PositionOf(st.positions, ticker)
        market_val == Value(pos.qty, price)
    IN  [st EXCEPT !.cash = @ + market_val,
                   !.trade_log = Append(@,
                       [Date |-> d, Ticker |-> ticker, Action |-> "SELL",
                        Price |-> price, Reason |-> reason,
                        PnL |-> Return(price, pos.entry_price)]),
                   !.positions = Remove(@, ticker)]

\* self.positions[ticker][field] = value, for last_price and max_pnl
Marked(pos, ticker, price, max_pnl) ==
    [k \in DOMAIN pos |->
        IF pos[k].ticker = ticker
        THEN [pos[k] EXCEPT !.last_price = price, !.max_pnl = max_pnl]
        ELSE pos[k]]

\* one iteration of the sell loop
RevExitOne(st, ticker, rows, d) ==
    LET row == rows[ticker]
        pos == PositionOf(st.positions, ticker)
        price == row.Close
        pnl_pct == Return(price, pos.entry_price)
        reason == RevExitReason(pos, row)
        st1 == [st EXCEPT !.equity = @ + Value(pos.qty, price),
                          !.positions = Marked(@, ticker, price, pos.max_pnl)]
    IN  IF row = NoRow
        THEN [st EXCEPT !.equity = @ + Value(pos.qty, pos.last_price)]
        ELSE IF reason # "none" THEN _sell(st1, d, ticker, price, reason)
        ELSE IF FracLt(pos.max_pnl, pnl_pct)
        THEN [st1 EXCEPT !.positions = Marked(@, ticker, price, pnl_pct)]
        ELSE st1

RECURSIVE RevExitPass(_, _, _, _, _)
\* for ticker in list(self.positions.keys())
RevExitPass(st, keys, k, rows, d) ==
    IF k > Len(keys) THEN st
    ELSE RevExitPass(RevExitOne(st, keys[k].ticker, rows, d), keys, k + 1, rows, d)

RECURSIVE MarketValue(_, _)
\* sum(p['qty'] * p['last_price'] for p in self.positions.values())
MarketValue(pos, k) ==
    IF k > Len(pos) THEN 0
    ELSE Value(pos[k].qty, pos[k].last_price) + MarketValue(pos, k + 1)

_buy(st, d, ticker, price) ==
    LET total_asset == st.cash + MarketValue(st.positions, 1)
        target_pos_value == (total_asset * MaxPosPct) \div 100
        invest_amt == Min({st.cash, target_pos_value})
    IN  IF invest_amt > MinOrder
        THEN [st EXCEPT !.cash = @ - invest_amt,
                        !.positions = Append(@,
                            [ticker |-> ticker, qty |-> Norm(<<invest_amt, price>>),
                             entry_price |-> price, last_price |-> price,
                             max_pnl |-> <<0, 1>>]),
                        !.trade_log = Append(@,
                            [Date |-> d, Ticker |-> ticker, Action |-> "BUY",
                             Price |-> price, Reason |-> "signal-entry",
                             PnL |-> <<0, 1>>])]
        ELSE st

\* the three entry conditions; h is the ticker's count including today's row
RevSignal(curr, prev, h) ==
    LET ma_cross == Gt(curr.EMA5, curr.EMA10) /\ Le(prev.EMA5, prev.EMA10)
        rsi_oversold == h < RsiWindow
        kdj_up == Gt(curr.K, curr.D)
    IN  ma_cross /\ rsi_oversold /\ kdj_up

\* one iteration of the entry loop; prev holds the rows of prev_date
RevEntryOne(st, ticker, rows, prev, h, d) ==
    LET curr == rows[ticker]
    IN  IF Held(st.positions, ticker) THEN st
        ELSE IF curr = NoRow \/ prev[ticker] = NoRow THEN st
        ELSE IF NaN \in {curr.EMA5, curr.EMA10, curr.RSI, curr.K, curr.D} THEN st
        ELSE IF RevSignal(curr, prev[ticker], h[ticker])
        THEN _buy(st, d, ticker, curr.Close)
        ELSE st

RECURSIVE RevEntryPass(_, _, _, _, _, _)
\* for ticker in self.market_data
RevEntryPass(st, k, rows, prev, h, d) ==
    IF k > Len(SimTickers) THEN st
    ELSE RevEntryPass(RevEntryOne(st, SimTickers[k], rows, prev, h, d),
                      k + 1, rows, prev, h, d)

\* the count after the ticker's row of the date
NextHist(h, rows) ==
    [t \in TickerSet |->
        IF rows[t] = NoRow THEN h[t]
        ELSE IF Lt(rows[t].RSI, 35) THEN 0
        ELSE Min({h[t] + 1, RsiWindow})]

RevRow(c, e5, e10, rsi, k, dd) == [Close |-> c, EMA5 |-> e5, EMA10 |-> e10, RSI |-> rsi, K |-> k, D |-> dd]

\* the bars a date can bring: an oversold bar under the EMA10, a golden
\* cross at 100, a rise to 106, a fall to 95 (exactly -5%) and a fall to 94
\* that is itself a golden cross, a close under the EMA5 at +3%, and a bar
\* whose indicators are missing
RevRowMenu1 ==
    { NoRow,
      RevRow(100, 98, 100, 30, 20, 30),
      RevRow(100, 101, 100, 45, 40, 30),
      RevRow(106, 103, 101, 60, 70, 60),
      RevRow(95, 99, 100, 40, 30, 40),
      RevRow(94, 101, 100, 30, 40, 30),
      RevRow(103, 105, 104, 55, 50, 60),
      RevRow(103, NaN, NaN, NaN, NaN, NaN) }

RevRowMenu2 ==
    { NoRow,
      RevRow(50, 49, 50, 30, 20, 30),
      RevRow(50, 51, 50, 45, 40, 30) }

RevRowsMenu ==
    { r \in [TickerSet -> RevRowMenu1 \cup RevRowMenu2] :
        /\ r[SimTickers[1]] \in RevRowMenu1
        /\ r[SimTickers[2]] \in RevRowMenu2
        /\ \E t \in TickerSet : r[t] # NoRow }

InitRev ==
    /\ prog = "strategy_res"
    /\ cash = InitialCapital
    /\ positions = <<>>
    /\ trade_log = <<>>
    /\ history_equity = <<>>
    /\ date = 0
    /\ today = [t \in TickerSet |-> NoRow]
    /\ spy = <<>>
    /\ hist = [t \in TickerSet |-> RsiWindow]
    /\ bt = <<>>

\* one iteration of "for i, date in enumerate(self.timeline)"
RevStep ==
    /\ prog = "strategy_res"
    /\ date < RevDates
    /\ \E rows \in RevRowsMenu :
         LET d == date + 1
             i == date
             h == NextHist(hist, rows)
             st0 == [cash |-> cash, equity |-> cash, positions |-> positions,
                     trade_log |-> trade_log]
             st1 == RevExitPass(st0, positions, 1, rows, d)
             st2 == IF st1.cash * 100 > InitialCapital * 5
                    THEN RevEntryPass(st1, 1, rows, today, h, d)
                    ELSE st1
         IN  /\ date' = d
             /\ today' = rows
             /\ hist' = h
             /\ IF i < Warmup
                THEN UNCHANGED <<cash, positions, trade_log, history_equity>>
                ELSE /\ cash' = st2.cash
                     /\ positions' = st2.positions
                     /\ trade_log' = st2.trade_log
                     /\ history_equity' = Append(history_equity,
                            [Date |-> d, Total_Equity |-> st1.equity])
    /\ UNCHANGED <<spy, bt, prog, reviewVars>>

(***************************************************************************)
(* BacktestEngine.run_backtest, one ticker.  A row is [Close, EMA20,       *)
(* EMA200]; date is the loop index i.  bt holds the call's parameters (in  *)
(* percent and days) and the loop's locals.  The trade log holds one entry *)
(* per closed trade.                                                       *)
(***************************************************************************)
BTBars == 4

\* 'BUY' or None
strategy_ema_pullback(row) ==
    LET close == row.Close
        ema20 == row.EMA20
        trend_up == close > row.EMA200
        touch_ema20 == /\ ema20 # NaN
                       /\ ema20 * 985 <= close * 1000
                       /\ close * 1000 <= ema20 * 1015
    IN  IF row.EMA200 = NaN THEN "None"
        ELSE IF trend_up /\ touch_ema20 THEN "BUY"
        ELSE "None"

\* a plausible slip: the take-profit test comes before the stop-loss test
BTExitReason_ProfitFirst(b, pct_change, days_held) ==
    IF FracLe(<<b.take_profit_pct, 100>>, pct_change) THEN "take-profit"
    ELSE IF FracLe(pct_change, <<0 - b.stop_loss_pct, 100>>) THEN "stop-loss"
    ELSE IF days_held >= b.hold_days THEN "time-exit"
    ELSE "none"

\* the time test one bar late: days_held > hold_days
BTExitReason_LateTimeExit(b, pct_change, days_held) ==
    IF FracLe(pct_change, <<0 - b.stop_loss_pct, 100>>) THEN "stop-loss"
    ELSE IF FracLe(<<b.take_profit_pct, 100>>, pct_change) THEN "take-profit"
    ELSE IF days_held > b.hold_days THEN "time-exit"
    ELSE "none"

\* the if / elif / elif chain that sets exit_reason
BTExitReason(b, pct_change, days_held) ==
    IF FracLe(pct_change, <<0 - b.stop_loss_pct, 100>>) THEN "stop-loss"
    ELSE IF FracLe(<<b.take_profit_pct, 100>>, pct_change) THEN "take-profit"
    ELSE IF days_held >= b.hold_days THEN "time-exit"
    ELSE "none"

BTRow(c, e20, e200) == [Close |-> c, EMA20 |-> e20, EMA200 |-> e200]

\* a pullback to the EMA20 in an up-trend; closes at -5%, -6%, +10% and +2%
\* of an entry at 100; the same pullback without EMA200, below it, and
\* without EMA20
BTRowMenu ==
    { BTRow(100, 100, 90),
      BTRow(95, 100, 90),
      BTRow(94, 100, 90),
      BTRow(110, 100, 90),
      BTRow(102, 100, 90),
      BTRow(100, 100, NaN),
      BTRow(100, 100, 120),
      BTRow(100, NaN, 90) }

\* stop_loss_pct, take_profit_pct, hold_days of the call
BTParamMenu == { <<5, 10, 2>>, <<0, 0, 2>> }

InitBT ==
    /\ prog = "backtest"
    /\ cash = InitialCapital
    /\ positions = <<>>
    /\ trade_log = <<>>
    /\ history_equity = <<>>
    /\ date = 0
    /\ today = NoRow
    /\ spy = <<>>
    /\ hist = <<>>
    /\ bt \in { [stop_loss_pct |-> a[1], take_profit_pct |-> a[2], hold_days |-> a[3],
                 in_position |-> FALSE, entry_price |-> 0, entry_date |-> None,
                 days_held |-> 0] : a \in BTParamMenu }

\* one iteration of "for i in range(1, len(df))"
BTStep ==
    /\ prog = "backtest"
    /\ date < BTBars
    /\ \E row \in BTRowMenu :
         LET i == date + 1
             current_price == row.Close
             days_held == bt.days_held + 1
             pct_change == Return(current_price, bt.entry_price)
             exit_reason == BTExitReason(bt, pct_change, days_held)
         IN  /\ date' = i
             /\ today' = row
             /\ IF bt.in_position
                THEN IF exit_reason # "none"
                     THEN /\ trade_log' = Append(trade_log,
                                 [Entry_Date |-> bt.entry_date, Exit_Date |-> i,
                                  Entry_Price |-> bt.entry_price,
                                  Exit_Price |-> current_price,
                                  Reason |-> exit_reason, Return |-> pct_change])
                          /\ bt' = [bt EXCEPT !.in_position = FALSE, !.days_held = 0]
                     ELSE /\ bt' = [bt EXCEPT !.days_held = days_held]
                          /\ UNCHANGED trade_log
                ELSE /\ UNCHANGED trade_log
                     /\ IF strategy_ema_pullback(row) = "BUY"
                        THEN bt' = [bt EXCEPT !.in_position = TRUE,
                                              !.entry_price = current_price,
                                              !.entry_date = i, !.days_held = 0]
                        ELSE UNCHANGED bt
    /\ UNCHANGED <<cash, positions, history_equity, spy, hist, prog, reviewVars>>

\* the trade review's variables while a simulator runs
NoReview ==
    /\ store = StoreAbsent
    /\ db = [t \in ReviewTickers |-> NoTable]
    /\ pc = [p \in Procs |-> "start"]
    /\ df_trades = [p \in Procs |-> <<>>]
    /\ df_new = [p \in Procs |-> <<>>]
    /\ results = [p \in Procs |-> <<>>]
    /\ appended = [p \in Procs |-> 0]
    /\ prev_csv = <<>>
    /\ runsLeft = 0

InitSim ==
    /\ NoReview
    /\ \/ InitPro
       \/ InitRev
       \/ InitBT

NextSim ==
    \/ ProStep
    \/ RevStep
    \/ BTStep

SpecSim == InitSim /\ [][NextSim]_vars

(***************************************************************************)
(*                 C L A I M S   O N   T H E   S I M U L A T O R S         *)
(***************************************************************************)
Portfolio == {"portfolio_backtest", "strategy_res"}

FracEq(a, b) == a[1] * b[2] = b[1] * a[2]

\* the entries a step appended to a log that had n entries
Appended(log, n) == (n + 1) .. Len(log)

\* the SELL entries of a ticker among the entries a step appended
SellsOf(log, n, ticker) ==
    {k \in Appended(log, n) : log[k].Action = "SELL" /\ log[k].Ticker = ticker}

BuysOf(log, n, ticker) ==
    {k \in Appended(log, n) : log[k].Action = "BUY" /\ log[k].Ticker = ticker}

\* a step of a portfolio simulator that runs the sell and entry passes
Trading == \/ prog = "portfolio_backtest"
           \/ prog = "strategy_res" /\ date >= Warmup

\* C4: in PortfolioBacktestPro and ReversalStrategyBacktest the cash is never
\* negative, in any reachable state of a run.
C4_CashNeverNegative == prog \in Portfolio => cash >= 0

\* an entry signal whose cost (120000) exceeds the cash was met with the gate
\* open and no position in the ticker, and no position was opened
C4_Witness ==
    /\ prog = "portfolio_backtest"
    /\ date > 0
    /\ today[SimTickers[1]] = ProRow(100, 95, 90, 50, <<1, 2>>)
    /\ get_spy_trend(spy)
    /\ ~HasPosition(positions, SimTickers[1])
    /\ cash < 120000

\* the mark of a position on a date: the close of its bar, the entry price
\* when it has no bar (such a position is not traded on the date)
MarkOf(pos, rows) ==
    IF rows[pos.ticker] # NoRow THEN rows[pos.ticker].Close ELSE pos.entry_price

RECURSIVE Holdings(_, _, _)
Holdings(pos, rows, k) ==
    IF k > Len(pos) THEN 0
    ELSE Value(pos[k].qty, MarkOf(pos[k], rows)) + Holdings(pos, rows, k + 1)

\* cash + sum(quantity x mark)
Worth(c, pos, rows) == c + Holdings(pos, rows, 1)

\* C5: the fills of a step neither create nor destroy value: valued at the
\* closes of the step's date, cash plus holdings is the same before the
\* step's fills and after them, so every BUY costs quantity x fill price and
\* every SELL yields quantity x fill price.
C5_FillsConserveValue ==
    [][(prog \in Portfolio) =>
         Worth(cash', positions', today') = Worth(cash, positions, today')]_vars

\* a position was sold at a price other than its entry price
C5_Witness ==
    /\ prog = "strategy_res"
    /\ \E k \in DOMAIN trade_log :
         /\ trade_log[k].Action = "SELL"
         /\ trade_log[k].PnL[1] # 0
         /\ trade_log[k].Date = date

Priority == <<"stop-loss", "take-profit", "time-exit", "breakeven-exit", "trend-exit">>

\* the first reason of the priority list among the reasons met
FirstMatch(met) ==
    IF met = {} THEN "none"
    ELSE Priority[Min({k \in DOMAIN Priority : Priority[k] \in met})]

\* the exit conditions a position meets on a bar, each taken on its own
ProMet(pos, row) ==
    {r \in {"stop-loss", "trend-exit"} :
        \/ r = "stop-loss" /\ FracLt(<<row.Close, 1>>, pos.stop_loss_price)
        \/ r = "trend-exit" /\ Lt(row.Close, row.EMA20) /\ row.Close > pos.entry_price}

RevMet(pos, row) ==
    LET pnl_pct == Return(row.Close, pos.entry_price)
    IN  {r \in {"stop-loss", "breakeven-exit", "trend-exit"} :
            \/ r = "stop-loss" /\ FracLe(pnl_pct, <<0 - StopLossPct, 100>>)
            \/ r = "breakeven-exit" /\ FracLt(<<5, 100>>, pos.max_pnl)
                                    /\ FracLt(pnl_pct, <<1, 100>>)
            \/ r = "trend-exit" /\ Lt(row.Close, row.EMA5) /\ pnl_pct[1] > 0}

BTMet(b, row) ==
    LET pct_change == Return(row.Close, b.entry_price)
    IN  {r \in {"stop-loss", "take-profit", "time-exit"} :
            \/ r = "stop-loss" /\ FracLe(pct_change, <<0 - b.stop_loss_pct, 100>>)
            \/ r = "take-profit" /\ FracLe(<<b.take_profit_pct, 100>>, pct_change)
            \/ r = "time-exit" /\ b.days_held + 1 >= b.hold_days}

\* the step logged exactly one SELL of the ticker, with the reason, or none
\* when the reason is "none"
OneExit(log, n, ticker, reason) ==
    IF reason = "none" THEN SellsOf(log, n, ticker) = {}
    ELSE /\ Cardinality(SellsOf(log, n, ticker)) = 1
         /\ \A k \in SellsOf(log, n, ticker) : log[k].Reason = reason

\* C6: in a step, a position that meets several exit conditions is closed
\* once, with the first reason met in the order stop-loss, take-profit,
\* time-exit, breakeven-exit, trend-exit; a position that meets both the
\* stop-loss and the take-profit threshold is closed as stop-loss.
C6_ExitPriority ==
    [][/\ (prog = "portfolio_backtest" /\ date' # date) =>
            \A k \in DOMAIN positions :
               today'[positions[k].ticker] # NoRow =>
                  OneExit(trade_log', Len(trade_log), positions[k].ticker,
                          FirstMatch(ProMet(positions[k], today'[positions[k].ticker])))
       /\ (prog = "strategy_res" /\ date' # date) =>
            \A k \in DOMAIN positions :
               today'[positions[k].ticker] # NoRow =>
                  OneExit(trade_log', Len(trade_log), positions[k].ticker,
                          FirstMatch(RevMet(positions[k], today'[positions[k].ticker])))
       /\ (prog = "backtest" /\ date' # date /\ bt.in_position) =>
            IF FirstMatch(BTMet(bt, today')) = "none"
            THEN trade_log' = trade_log
            ELSE /\ Len(trade_log') = Len(trade_log) + 1
                 /\ trade_log'[Len(trade_log')].Reason = FirstMatch(BTMet(bt, today'))
      ]_vars

\* a trade was closed as stop-loss on a bar that also met the take-profit
\* threshold of the call
C6_Witness ==
    /\ prog = "backtest"
    /\ \E k \in DOMAIN trade_log :
         /\ trade_log[k].Reason = "stop-loss"
         /\ trade_log[k].Exit_Date = date
         /\ FracLe(<<bt.take_profit_pct, 100>>, trade_log[k].Return)

\* the step logged a stop-loss SELL of the ticker on date d with return ret
StopSell(log, n, d, ticker, ret) ==
    \E k \in SellsOf(log, n, ticker) :
       /\ log[k].Date = d
       /\ log[k].Reason = "stop-loss"
       /\ FracEq(log[k].PnL, ret)

\* C7: in every simulator, a step that brings an open position a bar whose
\* close is at or below its stop level (entry price x (1 - stop-loss
\* fraction) in ReversalStrategyBacktest and BacktestEngine, the stop price
\* stored at entry in PortfolioBacktestPro) records a stop-loss SELL at that
\* step with return (close - entry) / entry; a close equal to the stop level
\* triggers it too.
C7_StopLossFires ==
    [][/\ (prog = "portfolio_backtest" /\ date' # date) =>
            \A k \in DOMAIN positions :
               LET pos == positions[k]
                   row == today'[pos.ticker]
               IN  (row # NoRow /\ FracLe(<<row.Close, 1>>, pos.stop_loss_price)) =>
                      StopSell(trade_log', Len(trade_log), date', pos.ticker,
                               Return(row.Close, pos.entry_price))
       /\ (prog = "strategy_res" /\ date' # date) =>
            \A k \in DOMAIN positions :
               LET pos == positions[k]
                   row == today'[pos.ticker]
               IN  (/\ row # NoRow
                    /\ row.Close * 100 <= pos.entry_price * (100 - StopLossPct)) =>
                      StopSell(trade_log', Len(trade_log), date', pos.ticker,
                               Return(row.Close, pos.entry_price))
       /\ (/\ prog = "backtest" /\ date' # date /\ bt.in_position
           /\ today'.Close * 100 <= bt.entry_price * (100 - bt.stop_loss_pct)) =>
            /\ Len(trade_log') = Len(trade_log) + 1
            /\ trade_log'[Len(trade_log')].Reason = "stop-loss"
            /\ trade_log'[Len(trade_log')].Exit_Date = date'
            /\ FracEq(trade_log'[Len(trade_log')].Return,
                      Return(today'.Close, bt.entry_price))
      ]_vars

\* the log of a portfolio simulator restricted to one ticker
RECURSIVE ActionsOf(_, _, _)
ActionsOf(log, ticker, k) ==
    IF k > Len(log) THEN <<>>
    ELSE IF log[k].Ticker = ticker
    THEN <<log[k].Action>> \o ActionsOf(log, ticker, k + 1)
    ELSE ActionsOf(log, ticker, k + 1)

\* BUY, SELL, BUY, ...
Alternates(acts) ==
    \A k \in DOMAIN acts : acts[k] = (IF k % 2 = 1 THEN "BUY" ELSE "SELL")

\* C8: each symbol has at most one open position: in the trade log of a
\* portfolio simulator the entries of one symbol alternate BUY, SELL, BUY,
\* ..., and the symbol is held exactly when its last entry is a BUY; in
\* BacktestEngine, whose log has one entry per closed trade, every trade is
\* closed before the next is opened and the open one starts after them all.
C8_OnePositionPerSymbol ==
    /\ prog \in Portfolio =>
         \A t \in TickerSet :
            /\ Cardinality({k \in DOMAIN positions : positions[k].ticker = t}) <= 1
            /\ Alternates(ActionsOf(trade_log, t, 1))
            /\ HasPosition(positions, t) <=> Len(ActionsOf(trade_log, t, 1)) % 2 = 1
    /\ prog = "backtest" =>
         /\ \A k \in DOMAIN trade_log :
               /\ trade_log[k].Entry_Date < trade_log[k].Exit_Date
               /\ k > 1 => trade_log[k - 1].Exit_Date < trade_log[k].Entry_Date
         /\ (bt.in_position /\ trade_log # <<>>) =>
               trade_log[Len(trade_log)].Exit_Date < bt.entry_date

\* one symbol was bought, sold and bought again, and a signal for another
\* came with the gate open while it was held since an earlier date
C8_Witness ==
    /\ prog = "portfolio_backtest"
    /\ ActionsOf(trade_log, SimTickers[1], 1) = <<"BUY", "SELL", "BUY">>
    /\ ActionsOf(trade_log, SimTickers[2], 1) = <<"BUY">>
    /\ \E k \in DOMAIN trade_log :
          trade_log[k].Ticker = SimTickers[2] /\ trade_log[k].Date < date
    /\ today[SimTickers[2]] # NoRow
    /\ ProSignal(today[SimTickers[2]])
    /\ get_spy_trend(spy)

\* the gate's benchmark bar has a defined long average and a close below it
GateDown(sp) ==
    /\ SpyRowUsed(sp) # NoSpy
    /\ SpyRowUsed(sp).MA200 # NaN
    /\ SpyRowUsed(sp).Close < SpyRowUsed(sp).MA200

\* the gate's benchmark bar has no long average yet
GateUndefined(sp) ==
    /\ SpyRowUsed(sp) # NoSpy
    /\ SpyRowUsed(sp).MA200 = NaN

\* C9: on a date whose gate bar has a defined long average and a close below
\* it, no BUY is recorded for any symbol, whatever the signals, while open
\* positions that meet an exit condition are still sold; on a date whose
\* gate bar has no long average, an affordable signalled entry is bought.
C9_RegimeGate ==
    [][(prog = "portfolio_backtest" /\ date' # date) =>
         /\ GateDown(spy') =>
              /\ \A t \in TickerSet : BuysOf(trade_log', Len(trade_log), t) = {}
              /\ \A k \in DOMAIN positions :
                    (/\ today'[positions[k].ticker] # NoRow
                     /\ ProMet(positions[k], today'[positions[k].ticker]) # {}) =>
                        SellsOf(trade_log', Len(trade_log), positions[k].ticker) # {}
         /\ (/\ GateUndefined(spy')
             /\ positions = <<>>
             /\ today'[SimTickers[1]] # NoRow
             /\ ProSignal(today'[SimTickers[1]])
             /\ ProAtr(today'[SimTickers[1]])[1] > 0
             /\ ProCanBuy(cash, Value(ProShares(cash, ProAtr(today'[SimTickers[1]])),
                                      today'[SimTickers[1]].Close))) =>
                BuysOf(trade_log', Len(trade_log), SimTickers[1]) # {}
      ]_vars

\* with the gate closed, a position was sold on a bar that signals an entry,
\* and nothing was bought
C9_Witness ==
    /\ prog = "portfolio_backtest"
    /\ GateDown(spy)
    /\ trade_log # <<>>
    /\ trade_log[Len(trade_log)].Action = "SELL"
    /\ trade_log[Len(trade_log)].Date = date
    /\ ProSignal(today[trade_log[Len(trade_log)].Ticker])

(***************************************************************************)
(*           M O R E   C L A I M S   O N   T H E   T R A D E   R E V I E W *)
(***************************************************************************)
\* the processes whose records stand beside the pending trades and the
\* tables they were computed from
Analyzed == {p \in Procs : prog = "trade_review" /\ pc[p] \in {"analyzed", "done"}}

\* the positions, in a table, of the bars of the trade's date after the trade
BarsAfter(row, table) ==
    {k \in DOMAIN table.rows :
        /\ DateOf(table.rows[k].Datetime) = DateOf(row.dt_us)
        /\ table.rows[k].Datetime > row.dt_us}

\* a price strictly inside the band around the executed price
Inside(price, exec_price) ==
    /\ 100 * price > exec_price * (100 - BadTickPct)
    /\ 100 * price < exec_price * (100 + BadTickPct)

\* the bars after the trade whose low and high are both strictly inside
BarsKept(row, table) ==
    {k \in BarsAfter(row, table) :
        /\ Inside(table.rows[k].Low, row.exec_price)
        /\ Inside(table.rows[k].High, row.exec_price)}

Earliest(table, idxs) == table.rows[Min(idxs)]

\* C12: when a record reports an improvement, its first-improvement time is
\* that of the earliest bar, among the bars after the trade that pass the
\* band filter, whose price is at least as good as the executed price: low <=
\* executed for a BUY, high >= executed for a SELL.
C12_FirstImprovement ==
    \A p \in Analyzed : \A i \in DOMAIN results[p] :
        LET rec == results[p][i]
            row == df_new[p][i]
            table == db[row.ticker]
            kept == BarsKept(row, table)
            asGood == {k \in kept :
                          \/ row.action = "B" /\ table.rows[k].Low <= row.exec_price
                          \/ row.action = "S" /\ table.rows[k].High >= row.exec_price}
        IN  rec.status = StPremature =>
               /\ asGood # {}
               /\ rec.first_better_time = HourMinute(Earliest(table, asGood).Datetime)

\* the record reports nothing but the no-subsequent-data status
NoLaterBarRecord(rec) ==
    /\ rec.status = StNoFuture
    /\ rec.best_price = None
    /\ rec.best_time = None
    /\ rec.diff_pct = 0

\* the table holds a bar of the trade's date
HasBarOfDate(row, table) ==
    \E k \in DOMAIN table.rows :
        DateOf(table.rows[k].Datetime) = DateOf(row.dt_us)

\* C13 as stated: whenever no bar of the trade's date is strictly after the
\* trade time, the record has the no-subsequent-data status and reports no
\* best price, no best time and a missed opportunity of zero.
C13_NoLaterBar ==
    \A p \in Analyzed : \A i \in DOMAIN results[p] :
        BarsAfter(df_new[p][i], db[df_new[p][i].ticker]) = {} =>
            NoLaterBarRecord(results[p][i])

\* C13 amended: when the ticker's table is read and holds bars of the trade's
\* date, none of them strictly after the trade time (a bar at the trade time
\* does not count), the record has the no-subsequent-data status and reports
\* no best price, no best time and a missed opportunity of zero.
C13_NoLaterBarOfADayWithBars ==
    \A p \in Analyzed : \A i \in DOMAIN results[p] :
        LET row == df_new[p][i]
            table == db[row.ticker]
        IN  (/\ table.exists /\ table.readable
             /\ HasBarOfDate(row, table)
             /\ BarsAfter(row, table) = {}) =>
                NoLaterBarRecord(results[p][i])

\* the only bar of the trade's date is the one at the trade's own minute
C13_Witness ==
    \E p \in Analyzed : \E i \in DOMAIN results[p] :
        LET row == df_new[p][i]
            table == db[row.ticker]
        IN  /\ results[p][i].status = StNoFuture
            /\ \E k \in DOMAIN table.rows : table.rows[k].Datetime = row.dt_us
            /\ BarsAfter(row, table) = {}

\* C14: a trade of the log whose timestamp string cannot be parsed appears in
\* the records of the run with a status that marks it as unparseable, and
\* the other new trades of the log that pass the cutoff have their records.
C14_UnparseableIsReported ==
    \A p \in Analyzed : \A i \in DOMAIN df_trades[p] :
        LET row == df_trades[p][i]
        IN  /\ _convert_time(row.time_str) = None =>
                 \E k \in DOMAIN results[p] :
                    /\ RecordOf(results[p][k], row)
                    /\ results[p][k].status = "unparseable"
            /\ PassesTimeFilter(row) =>
                 \E k \in DOMAIN results[p] : RecordOf(results[p][k], row)

(***************************************************************************)
(*            M O R E   C L A I M S   O N   T H E   S I M U L A T O R S    *)
(***************************************************************************)
\* the last mark of a position: the close of the latest bar of its ticker
LastMark(pos) ==
    IF prog = "strategy_res" THEN pos.last_price ELSE hist[pos.ticker]

RECURSIVE MarkedValue(_, _)
MarkedValue(pos, k) ==
    IF k > Len(pos) THEN 0
    ELSE Value(pos[k].qty, LastMark(pos[k])) + MarkedValue(pos, k + 1)

\* C15: the snapshot recorded at a step equals cash + sum(quantity x last
\* mark) over the positions open at that step, a position without a bar at
\* the date counting with its last known mark; and no SELL or BUY is logged
\* at a date for a symbol that has no bar at it.
C15_SnapshotIsCashPlusHoldings ==
    (prog \in Portfolio /\ history_equity # <<>>) =>
        /\ history_equity[Len(history_equity)].Date = date =>
              history_equity[Len(history_equity)].Total_Equity
                 = cash + MarkedValue(positions, 1)
        /\ \A k \in DOMAIN trade_log :
              trade_log[k].Date = date => today[trade_log[k].Ticker] # NoRow

\* C16: after every step the equity curve holds exactly one snapshot for
\* each date of the timeline walked so far, in increasing date order, and the
\* snapshots appended earlier are unchanged.
C16_OneSnapshotPerDate ==
    [][(prog \in Portfolio) =>
         /\ Len(history_equity') = date'
         /\ \A k \in DOMAIN history_equity' : history_equity'[k].Date = k
         /\ \A k \in DOMAIN history_equity :
               k \in DOMAIN history_equity' /\ history_equity'[k] = history_equity[k]
      ]_vars

\* C17: no symbol has both a SELL and a BUY logged at the same date: a
\* position closed by the exit pass of a step is not re-opened by the entry
\* pass of that step.
C17_NoSameStepChurn ==
    prog \in Portfolio =>
        \A j, k \in DOMAIN trade_log :
            ~(/\ trade_log[j].Ticker = trade_log[k].Ticker
              /\ trade_log[j].Date = trade_log[k].Date
              /\ trade_log[j].Action = "SELL"
              /\ trade_log[k].Action = "BUY")

\* C18: at a date without a benchmark bar the gate reads the most recent
\* benchmark bar dated before it, and never a benchmark bar dated after the
\* date, also when the date precedes every benchmark bar.
C18_GateReadsNoLaterBar ==
    (prog = "portfolio_backtest" /\ date > 0 /\ spy.row = NoSpy) =>
        \/ SpyRowUsed(spy) = NoSpy
        \/ /\ SpyRowUsed(spy).Date <= date
           /\ SpyRowUsed(spy) = spy.pad

\* the cost PortfolioBacktestPro sizes for an entry on a bar, with the
\* portfolio all in cash c
ProCost(c, row) == Value(ProShares(c, ProAtr(row)), row.Close)

\* the first ticker qualifies for an entry at the step: it is not held, has
\* its bars, its signal is on and the simulator looks for entries
ProQualifies ==
    /\ prog = "portfolio_backtest" /\ date' # date
    /\ positions = <<>>
    /\ get_spy_trend(spy')
    /\ today'[SimTickers[1]] # NoRow
    /\ ProSignal(today'[SimTickers[1]])
    /\ ProAtr(today'[SimTickers[1]])[1] > 0

RevQualifies ==
    /\ prog = "strategy_res" /\ date' # date /\ date >= Warmup
    /\ positions = <<>>
    /\ cash * 100 > InitialCapital * 5
    /\ today'[SimTickers[1]] # NoRow /\ today[SimTickers[1]] # NoRow
    /\ NaN \notin {today'[SimTickers[1]].EMA5, today'[SimTickers[1]].EMA10,
                   today'[SimTickers[1]].RSI, today'[SimTickers[1]].K,
                   today'[SimTickers[1]].D}
    /\ RevSignal(today'[SimTickers[1]], today[SimTickers[1]], hist'[SimTickers[1]])

\* C19: a qualifying entry is filled whenever its cost, clamped to the cash
\* when it exceeds the cash, is at least the minimum order value: an entry
\* sized above the cash is bought for the cash, not skipped.
C19_ClampToCash ==
    [][/\ (ProQualifies /\ Min({cash, ProCost(cash, today'[SimTickers[1]])}) >= MinOrder) =>
            BuysOf(trade_log', Len(trade_log), SimTickers[1]) # {}
       /\ (RevQualifies /\ Min({cash, (cash * MaxPosPct) \div 100}) >= MinOrder) =>
            BuysOf(trade_log', Len(trade_log), SimTickers[1]) # {}
      ]_vars

\* the first ticker's entry is looked at and not filled: its signal is on and
\* its cost is above the cash, not above the minimum order value, or infinite
ProRefused ==
    /\ prog = "portfolio_backtest" /\ date' # date
    /\ positions = <<>>
    /\ get_spy_trend(spy')
    /\ today'[SimTickers[1]] # NoRow
    /\ ProSignal(today'[SimTickers[1]])
    /\ \/ ProAtr(today'[SimTickers[1]])[1] = 0
       \/ ProCost(cash, today'[SimTickers[1]]) > cash
       \/ ProCost(cash, today'[SimTickers[1]]) <= MinOrder

\* the next ticker's entry would be filled from the cash c
ProFillable(c, row) ==
    /\ row # NoRow
    /\ ProSignal(row)
    /\ ProAtr(row)[1] > 0
    /\ ProCost(c, row) <= c
    /\ ProCost(c, row) > MinOrder

BTThresholdMet(rec) ==
    \/ FracLe(rec.Return, <<0 - bt.stop_loss_pct, 100>>)
    \/ FracLe(<<bt.take_profit_pct, 100>>, rec.Return)

FracMax(a, b) == IF FracLt(a, b) THEN b ELSE a

\* the position of ReversalStrategyBacktest has a bar at the step and is not
\* stopped out by it
RevNotStopped(pos, row) ==
    /\ row # NoRow
    /\ ~FracLe(Return(row.Close, pos.entry_price), <<0 - StopLossPct, 100>>)

\* the step sold the ticker with the breakeven reason
BreakevenSold(log, n, ticker) ==
    \E k \in SellsOf(log, n, ticker) : log[k].Reason = "breakeven-exit"

\* C22: in ReversalStrategyBacktest a position that has a bar at a step and
\* is not stopped out there is sold with the breakeven reason at the step
\* exactly when the maximum stored for it is above 5% and its return at the
\* step is below 1%.  The stored maximum is 0 on entry and, while the
\* position stays open, becomes the larger of itself and the return of the
\* step: it is the running maximum of the returns of the earlier steps and
\* never decreases.
C22_Breakeven ==
    [][(prog = "strategy_res" /\ date' # date /\ date >= Warmup) =>
          /\ \A k \in 1..Len(positions) :
               LET pos == positions[k]
                   row == today'[pos.ticker]
                   pnl_pct == Return(row.Close, pos.entry_price)
                   sold == SellsOf(trade_log', Len(trade_log), pos.ticker) # {}
               IN  /\ RevNotStopped(pos, row) =>
                          (BreakevenSold(trade_log', Len(trade_log), pos.ticker)
                              <=> (FracLt(<<5, 100>>, pos.max_pnl) /\ FracLt(pnl_pct, <<1, 100>>)))
                   /\ (~sold /\ row # NoRow) =>
                          /\ Held(positions', pos.ticker)
                          /\ FracEq(PositionOf(positions', pos.ticker).max_pnl,
                                    FracMax(pos.max_pnl, pnl_pct))
                   /\ (~sold /\ row = NoRow) =>
                          /\ Held(positions', pos.ticker)
                          /\ PositionOf(positions', pos.ticker).max_pnl = pos.max_pnl
          /\ \A t \in TickerSet :
               BuysOf(trade_log', Len(trade_log), t) # {} =>
                   /\ Held(positions', t)
                   /\ PositionOf(positions', t).max_pnl[1] = 0
      ]_vars

\* a position whose maximum had passed 5% was sold for breakeven
C22_Witness ==
    /\ prog = "strategy_res"
    /\ \E k \in 1..Len(trade_log) :
         /\ trade_log[k].Action = "SELL"
         /\ trade_log[k].Reason = "breakeven-exit"
         /\ trade_log[k].Date = date
         /\ FracLt(trade_log[k].PnL, <<1, 100>>)

\* the ATR that the sizing uses when the bar has none: 2% of the close
DefaultAtr(row) == <<row.Close, 50>>

\* C23: when the ATR of a qualifying entry bar is zero, the risk-based sizing
\* takes the default stop distance of a missing ATR and buys the finite
\* quantity computed from it.
C23_ZeroAtrUsesDefault ==
    [][(/\ prog = "portfolio_backtest" /\ date' # date
        /\ positions = <<>>
        /\ get_spy_trend(spy')
        /\ today'[SimTickers[1]] # NoRow
        /\ ProSignal(today'[SimTickers[1]])
        /\ today'[SimTickers[1]].ATR = <<0, 1>>
        /\ ProCanBuy(cash, ProCost(cash, [today'[SimTickers[1]] EXCEPT !.ATR = <<NaN, 1>>])))
        => /\ Held(positions', SimTickers[1])
           /\ PositionOf(positions', SimTickers[1]).qty
                = ProShares(cash, DefaultAtr(today'[SimTickers[1]]))
      ]_vars

\* the step sold the ticker with the trend reason
TrendSold(log, n, ticker) ==
    \E k \in SellsOf(log, n, ticker) : log[k].Reason = "trend-exit"

Statuses == {StNoTable, StNoData, StNoFuture, StAnomaly, StPremature, StOptimal, StError}

FailureStatuses == {StNoTable, StNoData, StNoFuture, StAnomaly, StError}

StoreUnreadable == store.exists /\ ~store.header

\* C26: a run that finds the persisted store present and unreadable aborts:
\* it has no pending trades, returns no records and appends nothing.
C26_UnreadableStoreAborts ==
    \A p \in Procs :
        StoreUnreadable =>
            /\ df_new[p] = <<>>
            /\ results[p] = <<>>
            /\ appended[p] = 0

\* the rows of the log have pairwise different fingerprints
DistinctLog(csv) ==
    \A i, j \in DOMAIN csv :
        i # j => _generate_fingerprint(csv[i]) # _generate_fingerprint(csv[j])

\* C27: when two runs over the same trade log (of distinct trades) and the
\* same readable store have both finished, however their steps interleaved,
\* the store holds no two records with the same fingerprint.
C27_ConcurrentRunsNoDuplicate ==
    (/\ \A p \in Procs : pc[p] = "done"
     /\ df_trades[1] = df_trades[2]
     /\ DistinctLog(df_trades[1])
     /\ store.header)
        => \A i, j \in DOMAIN store.rows :
               i # j => store.rows[i].fp # store.rows[j].fp

\* the positions, among the kept bars of a table, of the bars at the extreme
\* price: the minimum low for a BUY, the maximum high for a SELL
BarsAtExtreme(row, table) ==
    LET kept == BarsKept(row, table)
    IN  IF row.action = "B"
        THEN {k \in kept : table.rows[k].Low = Min({table.rows[j].Low : j \in kept})}
        ELSE {k \in kept : table.rows[k].High = Max({table.rows[j].High : j \in kept})}

MissedPct(best, exec_price) ==
    RoundDiv((IF best > exec_price THEN best - exec_price ELSE exec_price - best) * 10000,
             exec_price)

\* the best price among the kept bars of a table: the minimum low for a BUY,
\* the maximum high for a SELL
BestOf(row, table) ==
    LET kept == BarsKept(row, table)
    IN  IF row.action = "B" THEN Min({table.rows[k].Low : k \in kept})
        ELSE Max({table.rows[k].High : k \in kept})

\* a kept bar is strictly better than the executed price
Improves(row, table) ==
    \E k \in BarsKept(row, table) :
        \/ row.action = "B" /\ table.rows[k].Low < row.exec_price
        \/ row.action = "S" /\ table.rows[k].High > row.exec_price

\* C29 amended, with the rounding of the report: for a trade with bars after it
\* inside the band, the record's missed-opportunity percentage is
\* |best - executed| / executed x 100 rounded to two decimals, with best
\* the minimum low (BUY) or maximum high (SELL) of those bars when one
\* of them strictly improves on the executed price, and the record is
\* optimal-execution with a missed opportunity of 0 and no best time exactly
\* when none does.
C29_MissedOpportunity ==
    \A p \in Analyzed : \A i \in DOMAIN results[p] :
        LET rec == results[p][i]
            row == df_new[p][i]
            table == db[row.ticker]
        IN  (table.exists /\ table.readable /\ BarsKept(row, table) # {}) =>
               /\ Improves(row, table) =>
                     /\ rec.status = StPremature
                     /\ rec.diff_pct = MissedPct(BestOf(row, table), row.exec_price)
               /\ ~Improves(row, table) =>
                     /\ rec.status = StOptimal
                     /\ rec.diff_pct = 0
                     /\ rec.best_time = None
               /\ rec.status = StOptimal <=> ~Improves(row, table)

\* a record whose missed opportunity is not a whole number of hundredths of
\* a percent and is reported rounded
C29_Witness ==
    \E p \in Analyzed : \E i \in DOMAIN results[p] :
        LET rec == results[p][i]
            row == df_new[p][i]
            table == db[row.ticker]
        IN  /\ table.exists /\ table.readable
            /\ row.action = "B"
            /\ Improves(row, table)
            /\ rec.status = StPremature
            /\ rec.diff_pct = MissedPct(BestOf(row, table), row.exec_price)
            /\ rec.diff_pct * row.exec_price # (row.exec_price - BestOf(row, table)) * 10000

\* C29 as stated: the missed-opportunity percentage of the record is exactly
\* |best - executed| / executed x 100 (here in hundredths of a percent).
C29_MissedOpportunityExact ==
    \A p \in Analyzed : \A i \in DOMAIN results[p] :
        LET rec == results[p][i]
            row == df_new[p][i]
            table == db[row.ticker]
            best == BestOf(row, table)
            dist == IF best > row.exec_price THEN best - row.exec_price
                    ELSE row.exec_price - best
        IN  (table.exists /\ table.readable /\ Improves(row, table)) =>
               rec.diff_pct * row.exec_price = dist * 10000

\* C30: a record with a failure status is in the store with its fingerprint,
\* and a run that starts later does not take the trade of that fingerprint
\* as pending again, whatever the market tables hold by then.
C30_FailedTradeNeverReanalyzed ==
    [][\A p \in Procs :
          (pc[p] \in {"start", "done"} /\ pc'[p] = "loaded") =>
              \A i \in DOMAIN store.rows :
                  store.rows[i].status \in FailureStatuses =>
                      \A k \in DOMAIN df_new'[p] : df_new'[p][k].fp # store.rows[i].fp
      ]_vars

====
